---- MODULE Spec2Model ----
(***************************************************************************)
(* Model of Blender_IMGFromClipboard.py: the DIB -> BMP file conversion    *)
(* (dib_to_bmp_file_bytes), the clipboard read (get_clipboard_dib_bytes)   *)
(* and the import operator (WM_OT_img_from_clipboard.execute) with the     *)
(* storage folder and the host's images and objects.                       *)
(*                                                                         *)
(* Buffers are sequences of bytes (0..255), index i+1 holding offset i.    *)
(* Python integers are unbounded; values that can exceed 2^31-1 (unsigned  *)
(* 32-bit fields and what is computed from them) are kept as little-endian *)
(* base-256 digit sequences without trailing zeros (zero is <<>>).         *)
(***************************************************************************)
EXTENDS Integers, Sequences, FiniteSets, TLC

VARIABLES
    osname,     \* os.name of the process
    hdr,        \* the field values the input buffer of the conversion was built from
    dib,        \* argument of dib_to_bmp_file_bytes
    ret,        \* outcome of dib_to_bmp_file_bytes(dib)
    cbOpen,     \* number of clipboard opens not yet closed
    hLocked,    \* lock count of the clipboard memory handle
    cbret,      \* outcome of the last get_clipboard_dib_bytes: value and API calls
    files,      \* content of STORAGE_DIR: path -> bytes
    images,     \* bpy.data.images: the paths loaded, in load order
    objects,    \* scene objects created, in order
    opret,      \* outcome of the last execute
    runs        \* number of execute runs so far

vars == <<osname, hdr, dib, ret, cbOpen, hLocked, cbret, files, images, objects,
          opret, runs>>

-----------------------------------------------------------------------------
(* Python int arithmetic on digit sequences *)

Base == 256

RECURSIVE Norm(_)
Norm(d) ==
    IF d = <<>> THEN <<>>
    ELSE IF d[Len(d)] = 0 THEN Norm(SubSeq(d, 1, Len(d) - 1))
    ELSE d

RECURSIVE FromInt(_)
FromInt(n) == IF n = 0 THEN <<>> ELSE <<n % Base>> \o FromInt(n \div Base)

RECURSIVE AddC(_, _, _)
AddC(a, b, c) ==
    IF a = <<>> /\ b = <<>> THEN FromInt(c)
    ELSE LET x == IF a = <<>> THEN 0 ELSE Head(a)
             y == IF b = <<>> THEN 0 ELSE Head(b)
             s == x + y + c
         IN  <<s % Base>> \o AddC(IF a = <<>> THEN <<>> ELSE Tail(a),
                                  IF b = <<>> THEN <<>> ELSE Tail(b),
                                  s \div Base)

Add(a, b) == Norm(AddC(a, b, 0))

RECURSIVE MulC(_, _, _)
MulC(a, k, c) ==
    IF a = <<>> THEN FromInt(c)
    ELSE LET s == Head(a) * k + c
         IN  <<s % Base>> \o MulC(Tail(a), k, s \div Base)

Mul(a, k) == Norm(MulC(a, k, 0))

RECURSIVE LessSameLen(_, _)
LessSameLen(a, b) ==
    IF a = <<>> THEN FALSE
    ELSE IF a[Len(a)] # b[Len(b)] THEN a[Len(a)] < b[Len(b)]
    ELSE LessSameLen(SubSeq(a, 1, Len(a) - 1), SubSeq(b, 1, Len(b) - 1))

Less(a, b) ==
    IF Len(a) # Len(b) THEN Len(a) < Len(b) ELSE LessSameLen(a, b)

RECURSIVE Pow2(_)
Pow2(n) == IF n = 0 THEN 1 ELSE 2 * Pow2(n - 1)

-----------------------------------------------------------------------------
(* struct.unpack_from / struct.pack, little-endian *)

unpack_from_I(buf, off) == Norm(SubSeq(buf, off + 1, off + 4))

unpack_from_H(buf, off) == buf[off + 1] + Base * buf[off + 2]

Pad(d, w) == d \o [i \in 1..(w - Len(d)) |-> 0]

\* "<I" accepts 0 .. 2^32-1 and raises struct.error otherwise
FitsI(n) == Len(n) <= 4

pack_I(n) == Pad(n, 4)

pack_H(n) == <<n % Base, n \div Base>>

BM == <<66, 77>>

\* struct.pack("<2sIHHI", b"BM", file_size, 0, 0, off_bits)
pack_bfh(file_size, off_bits) ==
    IF FitsI(file_size) /\ FitsI(off_bits)
    THEN [ok |-> TRUE,
          bytes |-> BM \o pack_I(file_size) \o pack_H(0) \o pack_H(0) \o pack_I(off_bits)]
    ELSE [ok |-> FALSE, bytes |-> <<>>]

-----------------------------------------------------------------------------
(* dib_to_bmp_file_bytes *)

NoLocals == [biSize |-> <<>>, palette_entries |-> <<>>, palette_size |-> <<>>,
             masks_size |-> 0, off_bits |-> <<>>, file_size |-> <<>>]

NoRet == [status |-> "none", msg |-> "", out |-> <<>>, loc |-> NoLocals]

Raise(exc, text, loc) == [status |-> exc, msg |-> text, out |-> <<>>, loc |-> loc]

too_small(d) == d = <<>> \/ Len(d) < 40

\* mutant: the declared size is not compared with the buffer length
bad_header_no_length(d, biSize) == Less(biSize, FromInt(40))

bad_header(d, biSize) == Less(biSize, FromInt(40)) \/ Less(FromInt(Len(d)), biSize)

\* mutant: 8-bit images get no palette
palette_entries_below_8(biBitCount, biClrUsed) ==
    IF biBitCount < 8
    THEN IF biClrUsed # <<>> THEN biClrUsed ELSE FromInt(Pow2(biBitCount))
    ELSE <<>>

palette_entries(biBitCount, biClrUsed) ==
    IF biBitCount <= 8
    THEN IF biClrUsed # <<>> THEN biClrUsed ELSE FromInt(Pow2(biBitCount))
    ELSE <<>>

palette_size(entries) == Mul(entries, 4)

\* mutant: masks are added whatever the header size
masks_size_any_header(biCompression, biSize) ==
    IF biCompression \in {FromInt(3), FromInt(6)} THEN 12 ELSE 0

masks_size(biCompression, biSize) ==
    IF biCompression \in {FromInt(3), FromInt(6)}
    THEN IF biSize = FromInt(40) THEN 12 ELSE 0
    ELSE 0

off_bits(biSize, palsize, msize) ==
    Add(Add(Add(FromInt(14), biSize), palsize), FromInt(msize))

file_size(d) == FromInt(14 + Len(d))

dib_to_bmp_file_bytes(d) ==
    IF too_small(d)
    THEN Raise("ValueError", "Clipboard DIB data is invalid or too small.", NoLocals)
    ELSE
    LET biSize == unpack_from_I(d, 0) IN
    IF bad_header(d, biSize)
    THEN Raise("ValueError", "Invalid DIB header.", NoLocals)
    ELSE
    LET biBitCount    == unpack_from_H(d, 14)
        biCompression == unpack_from_I(d, 16)
        biClrUsed     == unpack_from_I(d, 32)
        entries == palette_entries(biBitCount, biClrUsed)
        psize   == palette_size(entries)
        msize   == masks_size(biCompression, biSize)
        obits   == off_bits(biSize, psize, msize)
        fsize   == file_size(d)
        loc     == [biSize |-> biSize, palette_entries |-> entries,
                    palette_size |-> psize, masks_size |-> msize,
                    off_bits |-> obits, file_size |-> fsize]
        bfh     == pack_bfh(fsize, obits)
    IN  IF bfh.ok
        THEN [status |-> "ok", msg |-> "", out |-> bfh.bytes \o d, loc |-> loc]
        ELSE Raise("struct.error", "argument out of range", loc)

-----------------------------------------------------------------------------
(* get_clipboard_dib_bytes: the Windows API calls it makes, in order *)

CF_DIB == 8
CF_DIBV5 == 17

Call(fn, arg, ok) == [fn |-> fn, arg |-> arg, ok |-> ok]

ClipNone(calls) == [value |-> <<>>, none |-> TRUE, exc |-> "", calls |-> calls]

ClipValue(v, calls) == [value |-> v, none |-> FALSE, exc |-> "", calls |-> calls]

ClipRaise(exc, calls) == [value |-> <<>>, none |-> TRUE, exc |-> exc, calls |-> calls]

\* mutant: the cleanup call is made on the normal return of a value only
Finally_on_value_only(r, call) ==
    IF r.none THEN r ELSE [r EXCEPT !.calls = @ \o <<call>>]

\* try: <r> finally: <call>  -- the call is made however the body ends
Finally(r, call) == [r EXCEPT !.calls = @ \o <<call>>]

\* lines 94-97: the copy under the lock
clipboard_copy(env, calls) ==
    Finally(
        IF env.copy
        THEN ClipValue(env.data, calls \o <<Call("string_at", 0, TRUE)>>)
        ELSE ClipRaise("OSError", calls \o <<Call("string_at", 0, FALSE)>>),
        Call("GlobalUnlock", 0, TRUE))

\* lines 84-99: the work done with the clipboard open
clipboard_read(fmt, env, calls) ==
    Finally(
        LET c1 == calls \o <<Call("GetClipboardData", fmt, env.handle)>> IN
        IF ~env.handle THEN ClipNone(c1)
        ELSE LET c2 == c1 \o <<Call("GlobalSize", 0, TRUE),
                               Call("GlobalLock", 0, env.lock)>>
             IN  IF ~env.lock THEN ClipNone(c2) ELSE clipboard_copy(env, c2),
        Call("CloseClipboard", 0, TRUE))

get_clipboard_dib_bytes(os, env) ==
    IF os # "nt" THEN ClipNone(<<>>)
    ELSE
    LET c1 == <<Call("IsClipboardFormatAvailable", CF_DIBV5, env.v5)>>
        c2 == IF env.v5 THEN c1
              ELSE c1 \o <<Call("IsClipboardFormatAvailable", CF_DIB, env.dibfmt)>>
        fmt == IF env.v5 THEN CF_DIBV5 ELSE CF_DIB
    IN  IF ~env.v5 /\ ~env.dibfmt THEN ClipNone(c2)
        ELSE LET c3 == c2 \o <<Call("OpenClipboard", 0, env.open)>>
             IN  IF ~env.open THEN ClipNone(c3) ELSE clipboard_read(fmt, env, c3)

\* effect of a sequence of API calls on the number of open clipboards and on
\* the handle's lock count
RECURSIVE Balance(_, _, _)
Balance(calls, acquire, release) ==
    IF calls = <<>> THEN 0
    ELSE (IF Head(calls).fn = acquire /\ Head(calls).ok THEN 1
          ELSE IF Head(calls).fn = release THEN -1 ELSE 0)
         + Balance(Tail(calls), acquire, release)

-----------------------------------------------------------------------------
(* Storage folder, clock and host *)

MsPerSec == 1000

\* time.strftime("%Y%m%d_%H%M%S") of the instant t (milliseconds)
strftime(t) == t \div MsPerSec

\* int((time.time() - int(time.time())) * 1000) for the two readings t1 <= t2
\* (milliseconds): negative when t2 is in a later second than t1
fraction_ms(t1, t2) == t1 - strftime(t2) * MsPerSec

\* clk: the three clock readings, in order
make_unique_bmp_path(clk) ==
    <<"clipboard", strftime(clk[1]), fraction_ms(clk[2], clk[3]), "bmp">>

NoPath == <<>>

\* mutant: the file is opened for writing before the buffer is converted
save_before_conversion(os, fs, env, clk) ==
    LET clip == get_clipboard_dib_bytes(os, env) IN
    IF clip.exc # "" THEN [clip |-> clip, exc |-> clip.exc, path |-> NoPath, files |-> fs]
    ELSE IF clip.none \/ clip.value = <<>>
    THEN [clip |-> clip, exc |-> "", path |-> NoPath, files |-> fs]
    ELSE
    LET bmp == dib_to_bmp_file_bytes(clip.value)
        path == make_unique_bmp_path(clk)
    IN  IF bmp.status # "ok"
        THEN [clip |-> clip, exc |-> bmp.status, path |-> NoPath,
              files |-> (path :> <<>>) @@ fs]
        ELSE [clip |-> clip, exc |-> "", path |-> path,
              files |-> (path :> bmp.out) @@ fs]

save_clipboard_image_to_disk(os, fs, env, clk) ==
    LET clip == get_clipboard_dib_bytes(os, env) IN
    IF clip.exc # "" THEN [clip |-> clip, exc |-> clip.exc, path |-> NoPath, files |-> fs]
    ELSE IF clip.none \/ clip.value = <<>>
    THEN [clip |-> clip, exc |-> "", path |-> NoPath, files |-> fs]
    ELSE
    LET bmp == dib_to_bmp_file_bytes(clip.value) IN
    IF bmp.status # "ok"
    THEN [clip |-> clip, exc |-> bmp.status, path |-> NoPath, files |-> fs]
    ELSE LET path == make_unique_bmp_path(clk)
         IN  [clip |-> clip, exc |-> "", path |-> path,
              files |-> (path :> bmp.out) @@ fs]

\* img is the index of the new image in bpy.data.images, 0 for None
load_image_from_path(imgs, path, ok) ==
    IF ok THEN [img |-> Len(imgs) + 1, images |-> Append(imgs, path)]
    ELSE [img |-> 0, images |-> imgs]

\* host: "ok" the operator made the object and it is the active object;
\* "none" no active object of the wanted type afterwards; "raise" the
\* operator raised. ensure_object_mode changes no state modelled here.
add_object(kind, objs, img, host) ==
    IF host.add = "raise" THEN [obj |-> 0, objects |-> objs, exc |-> "RuntimeError"]
    ELSE IF host.add = "none" THEN [obj |-> 0, objects |-> objs, exc |-> ""]
    ELSE [obj |-> Len(objs) + 1,
          objects |-> Append(objs, [type |-> kind, image |-> img]),
          exc |-> ""]

add_image_reference(objs, img, host) == add_object("EMPTY", objs, img, host)

add_mesh_plane_with_image(objs, img, host) == add_object("MESH", objs, img, host)

-----------------------------------------------------------------------------
(* Input buffers of the conversion *)

MaxLen == 124
NumFills == 2

LE4(n) == Pad(FromInt(n), 4)

LE2(n) == Pad(FromInt(n), 2)

Lens == {0, 39, 40, 50, 100, MaxLen}

SizeFields == {LE4(0), LE4(39), LE4(40), LE4(41), LE4(100), LE4(MaxLen),
               <<40, 0, 0, 1>>, <<255, 255, 255, 255>>}

BitCountFields == {LE2(0), LE2(1), LE2(4), LE2(8), LE2(9), LE2(24), LE2(32), <<8, 1>>}

CompressionFields == {LE4(0), LE4(1), LE4(3), LE4(6), <<3, 1, 0, 0>>}

ClrUsedFields == {LE4(0), LE4(2), LE4(256), <<242, 255, 255, 63>>,
                  <<243, 255, 255, 63>>, <<255, 255, 255, 255>>}

Headers == [len : Lens, biSize : SizeFields, bpp : BitCountFields,
            comp : CompressionFields, clr : ClrUsedFields, fill : 0..(NumFills - 1)]

Filler(fill, off) == (fill * 101 + off * 3 + 1) % Base

MkDib(h) ==
    [i \in 1..h.len |->
        LET off == i - 1 IN
        IF off < 4 THEN h.biSize[off + 1]
        ELSE IF off \in 14..15 THEN h.bpp[off - 13]
        ELSE IF off \in 16..19 THEN h.comp[off - 15]
        ELSE IF off \in 32..35 THEN h.clr[off - 31]
        ELSE Filler(h.fill, off)]

NoHeader == [len |-> 0, biSize |-> LE4(0), bpp |-> LE2(0), comp |-> LE4(0),
             clr |-> LE4(0), fill |-> 0]

-----------------------------------------------------------------------------
(* Specification of the conversion: one call on each input buffer *)

NoClip == [value |-> <<>>, none |-> TRUE, exc |-> "", calls |-> <<>>]

NoOp == [result |-> "none", report |-> "", path |-> <<>>]

InitRest ==
    /\ cbOpen = 0
    /\ hLocked = 0
    /\ cbret = NoClip
    /\ files = <<>>
    /\ images = <<>>
    /\ objects = <<>>
    /\ opret = NoOp
    /\ runs = 0

Init ==
    /\ osname = "nt"
    /\ hdr \in Headers
    /\ dib = MkDib(hdr)
    /\ ret = NoRet
    /\ InitRest

Convert ==
    /\ ret = NoRet
    /\ ret' = dib_to_bmp_file_bytes(dib)
    /\ UNCHANGED <<osname, hdr, dib, cbOpen, hLocked, cbret, files, images, objects,
                   opret, runs>>

Next == Convert

Spec == Init /\ [][Next]_vars

-----------------------------------------------------------------------------
(* WM_OT_img_from_clipboard.execute, run MaxRuns times *)

MaxRuns == 2

\* clock readings (milliseconds) of one call: strftime, time.time(), time.time()
Clocks == {<<0, 0, 0>>, <<1, 1, 1>>, <<999, 999, 1000>>}

ShortDib == MkDib([NoHeader EXCEPT !.len = 39, !.biSize = LE4(40), !.bpp = LE2(24)])

TrueColorDib == MkDib([NoHeader EXCEPT !.len = 50, !.biSize = LE4(40), !.bpp = LE2(24)])

PaletteDib == MkDib([NoHeader EXCEPT !.len = 40, !.biSize = LE4(40), !.bpp = LE2(8),
                                      !.fill = 1])

OverflowDib == MkDib([NoHeader EXCEPT !.len = 40, !.biSize = LE4(40), !.bpp = LE2(8),
                                       !.clr = <<255, 255, 255, 255>>])

ClipBuffers == {<<>>, ShortDib, TrueColorDib, PaletteDib, OverflowDib}

\* The answers of the Windows API to one clipboard read. An answer to a call
\* the code does not make is fixed (TRUE, empty data), so that each course of
\* the read is drawn once; a copy that fails yields no data.
ClipEnvs ==
    {e \in [v5 : BOOLEAN, dibfmt : BOOLEAN, open : BOOLEAN, handle : BOOLEAN,
            lock : BOOLEAN, copy : BOOLEAN, data : ClipBuffers] :
        /\ e.v5 => e.dibfmt
        /\ ~e.dibfmt => e.open
        /\ ~e.open => e.handle
        /\ ~e.handle => e.lock
        /\ ~e.lock => e.copy
        /\ ~e.copy => e.data = <<>>}

\* The host's answers to one run; as above, an answer not asked for is fixed.
Hosts ==
    {h \in [load : BOOLEAN, add : {"ok", "none", "raise"}] : ~h.load => h.add = "ok"}

Modes == {"REFERENCE", "MESH"}

InitOp ==
    /\ osname \in {"nt", "posix"}
    /\ hdr = NoHeader
    /\ dib = <<>>
    /\ ret = NoRet
    /\ cbOpen = 0
    /\ hLocked = 0
    /\ cbret = NoClip
    /\ files = <<>>
    /\ images = <<>>
    /\ objects = <<>>
    /\ opret = NoOp
    /\ runs = 0

Outcome(result, report, path) == [result |-> result, report |-> report, path |-> path]

\* the new values of <<opret, cbret, files, images, objects>>
execute(os, mode, env, clk, host) ==
    IF os # "nt"
    THEN <<Outcome("CANCELLED", "IMGFromClipboard is Windows-only.", NoPath),
           cbret, files, images, objects>>
    ELSE
    LET saved == save_clipboard_image_to_disk(os, files, env, clk) IN
    IF saved.exc # ""
    THEN <<Outcome(saved.exc, "", NoPath), saved.clip, saved.files, images, objects>>
    ELSE IF saved.path = NoPath
    THEN <<Outcome("CANCELLED", "No image found in clipboard.", NoPath),
           saved.clip, saved.files, images, objects>>
    ELSE
    LET loaded == load_image_from_path(images, saved.path, host.load) IN
    IF loaded.img = 0
    THEN <<Outcome("CANCELLED", "Failed to load saved image", saved.path),
           saved.clip, saved.files, loaded.images, objects>>
    ELSE
    LET made == IF mode = "MESH"
                THEN add_mesh_plane_with_image(objects, loaded.img, host)
                ELSE add_image_reference(objects, loaded.img, host)
    IN  IF made.exc # ""
        THEN <<Outcome(made.exc, "", saved.path),
               saved.clip, saved.files, loaded.images, made.objects>>
        ELSE IF made.obj = 0
        THEN <<Outcome("CANCELLED", "Failed to create object.", saved.path),
               saved.clip, saved.files, loaded.images, made.objects>>
        ELSE <<Outcome("FINISHED", "Imported from clipboard", saved.path),
               saved.clip, saved.files, loaded.images, made.objects>>

\* the clock and the host are consulted only by a run that saves a file
Saves(os, env) == save_clipboard_image_to_disk(os, files, env, <<0, 0, 0>>).path # NoPath

Execute ==
    /\ runs < MaxRuns
    /\ \E mode \in Modes, env \in ClipEnvs :
       \E clk \in IF Saves(osname, env) THEN Clocks ELSE {<<0, 0, 0>>} :
       \E host \in IF Saves(osname, env) THEN Hosts ELSE {[load |-> TRUE, add |-> "ok"]} :
       \E new \in {execute(osname, mode, env, clk, host)} :
          /\ opret' = new[1]
          /\ cbret' = new[2]
          /\ files' = new[3]
          /\ images' = new[4]
          /\ objects' = new[5]
          /\ cbOpen' = cbOpen + Balance(new[2].calls, "OpenClipboard", "CloseClipboard")
          /\ hLocked' = hLocked + Balance(new[2].calls, "GlobalLock", "GlobalUnlock")
    /\ runs' = runs + 1
    /\ UNCHANGED <<osname, hdr, dib, ret>>

NextOp == Execute

SpecOp == InitOp /\ [][NextOp]_vars

-----------------------------------------------------------------------------
(* The conversion's claims, stated on the field values the buffer was built *)
(* from (hdr), not on what the code read back from the buffer.              *)

HLen == hdr.len
HSize == Norm(hdr.biSize)
HBpp == hdr.bpp[1] + 256 * hdr.bpp[2]
HComp == Norm(hdr.comp)
HClr == Norm(hdr.clr)

Called == ret.status # "none"

\* the buffer passes validation: length >= 40 and 40 <= biSize <= length
Valid ==
    /\ HLen >= 40
    /\ ~Less(HSize, FromInt(40))
    /\ ~Less(FromInt(HLen), HSize)

RuleEntries ==
    IF HBpp <= 8
    THEN IF HClr = <<>> THEN FromInt(Pow2(HBpp)) ELSE HClr
    ELSE <<>>

RulePaletteBytes == Add(Add(RuleEntries, RuleEntries), Add(RuleEntries, RuleEntries))

RuleMaskBytes == IF (HComp = <<3>> \/ HComp = <<6>>) /\ HSize = <<40>> THEN 12 ELSE 0

RuleOffset == Add(Add(FromInt(14), HSize), Add(RulePaletteBytes, FromInt(RuleMaskBytes)))

Field(out, off, width) == Norm(SubSeq(out, off + 1, off + width))

\* C1: every buffer that passes validation yields a file whose pixel-data
\* offset field (bytes 10..13, little-endian) is 14 + biSize + palette_size +
\* mask_size
C1_OffsetOfEveryValidBuffer ==
    (Called /\ Valid) =>
        /\ ret.status = "ok"
        /\ Field(ret.out, 10, 4) = RuleOffset

\* C2: the conversion has exactly two outcomes, a returned file or
\* ValueError (InvalidInput); a buffer that passes validation never fails
C2_OnlyInvalidInputFails ==
    Called =>
        /\ ret.status \in {"ok", "ValueError"}
        /\ Valid => ret.status = "ok"

\* C3: an empty buffer, a buffer shorter than 40 bytes, a declared header
\* size below 40 or above the buffer length all fail with ValueError and no
\* output; the length is checked before the header-size field is read
C3_InvalidInputRejected ==
    Called =>
        /\ ~Valid => (ret.status = "ValueError" /\ ret.out = <<>>)
        /\ HLen < 40 => ret.msg = "Clipboard DIB data is invalid or too small."
        /\ (HLen >= 40 /\ ~Valid) => ret.msg = "Invalid DIB header."

C3_Witness ==
    /\ Called
    /\ HLen = 50
    /\ HSize = FromInt(100)
    /\ ret.status = "ValueError"
    /\ ret.msg = "Invalid DIB header."

\* C4: for every valid buffer the output has length 14 + len(input) and its
\* bytes from offset 14 on are the input, unchanged and in order
C4_InputCopiedForEveryValidBuffer ==
    (Called /\ Valid) =>
        /\ Len(ret.out) = 14 + HLen
        /\ \A i \in 1..HLen : ret.out[14 + i] = MkDib(hdr)[i]

\* C5: for every valid buffer the first bytes of the output are 'B' 'M', the
\* file size 14 + len(input) (little-endian 32-bit) and two zero 16-bit
\* reserved fields, and the file-size field is the length of the output
C5_FileHeaderForEveryValidBuffer ==
    (Called /\ Valid) =>
        /\ Len(ret.out) >= 14
        /\ SubSeq(ret.out, 1, 2) = <<66, 77>>
        /\ Field(ret.out, 2, 4) = FromInt(14 + HLen)
        /\ Field(ret.out, 2, 4) = FromInt(Len(ret.out))
        /\ SubSeq(ret.out, 7, 10) = <<0, 0, 0, 0>>

\* C6: for every valid buffer the palette entry count is colors-used when
\* bits-per-pixel <= 8 and colors-used is nonzero, 2^bits-per-pixel when
\* bits-per-pixel <= 8 and colors-used is 0, and 0 when bits-per-pixel > 8;
\* the palette byte size is 4 times the entry count
C6_PaletteRule ==
    (Called /\ Valid) =>
        /\ ret.loc.palette_entries = RuleEntries
        /\ ret.loc.palette_size = RulePaletteBytes
        /\ ret.status = "ok" =>
              Field(ret.out, 10, 4) =
                  Add(Add(FromInt(14 + ret.loc.masks_size), HSize), RulePaletteBytes)

C6_Witness ==
    /\ Called
    /\ HLen = 40 /\ HSize = FromInt(40)
    /\ HBpp = 8 /\ HClr = <<>> /\ HComp = <<>>
    /\ ret.loc.palette_entries = FromInt(256)
    /\ ret.loc.palette_size = FromInt(1024)
    /\ ret.status = "ok"
    /\ Field(ret.out, 10, 4) = FromInt(1078)

\* C7: for every valid buffer the mask size is 12 when the compression code
\* is 3 or 6 and the declared header size is exactly 40, and 0 otherwise; it
\* is added to the offset independently of the palette size
C7_MaskRule ==
    (Called /\ Valid) =>
        /\ ret.loc.masks_size = RuleMaskBytes
        /\ ret.status = "ok" =>
              Field(ret.out, 10, 4) =
                  Add(Add(FromInt(14 + RuleMaskBytes), HSize), ret.loc.palette_size)

C7_Witness ==
    /\ Called
    /\ HLen = 40 /\ HSize = FromInt(40)
    /\ HBpp = 8 /\ HClr = <<>> /\ HComp = <<3>>
    /\ ret.loc.masks_size = 12
    /\ ret.loc.palette_size = FromInt(1024)
    /\ ret.status = "ok"
    /\ Field(ret.out, 10, 4) = FromInt(1090)

\* What holds of every file the conversion does return: the buffer passed
\* validation, the offset field is the exact sum, the file header is as
\* described and the input follows it unchanged. The conversion returns no
\* file exactly when the buffer is invalid or the offset sum exceeds 2^32-1.
ReturnedFileIsExact ==
    ret.status = "ok" =>
        /\ Valid
        /\ Field(ret.out, 10, 4) = RuleOffset
        /\ SubSeq(ret.out, 1, 2) = <<66, 77>>
        /\ Field(ret.out, 2, 4) = FromInt(14 + HLen)
        /\ SubSeq(ret.out, 7, 10) = <<0, 0, 0, 0>>
        /\ Len(ret.out) = 14 + HLen
        /\ \A i \in 1..HLen : ret.out[14 + i] = MkDib(hdr)[i]

OverflowIsTheOnlyOtherFailure ==
    ret.status = "struct.error" <=> (Called /\ Valid /\ ~FitsI(RuleOffset))

-----------------------------------------------------------------------------
(* Claims about the import operator, the storage folder and the clipboard *)

Ran == runs' # runs

Unchanged(fs) == \A p \in DOMAIN fs : p \in DOMAIN files' /\ files'[p] = fs[p]

NothingLeft == files' = files /\ images' = images /\ objects' = objects

\* C8 (as claimed): a run either finishes with a file written, an image
\* loaded and an object created, or fails and leaves no file, no image and
\* no object behind
C8_SucceedsOrNoOps ==
    [][Ran =>
          \/ /\ opret'.result = "FINISHED"
             /\ opret'.path \in DOMAIN files'
             /\ images' = Append(images, opret'.path)
             /\ Len(objects') = Len(objects) + 1
          \/ /\ opret'.result # "FINISHED"
             /\ NothingLeft]_vars

\* C8 (amended): a run finishes with a file written, an image loaded and an
\* object created; or fails before anything is written (not Windows, no
\* clipboard image, clipboard copy fails, invalid buffer) and leaves nothing;
\* or fails to load and leaves the written file only; or fails to create the
\* object and leaves the written file and the loaded image
C8_FailureEffects ==
    [][Ran =>
          \/ /\ opret'.result = "FINISHED"
             /\ opret'.path \in DOMAIN files'
             /\ images' = Append(images, opret'.path)
             /\ Len(objects') = Len(objects) + 1
             /\ objects'[Len(objects')].image = Len(images')
          \/ /\ \/ opret'.result \in {"ValueError", "struct.error", "OSError"}
                \/ /\ opret'.result = "CANCELLED"
                   /\ opret'.report \in {"IMGFromClipboard is Windows-only.",
                                         "No image found in clipboard."}
             /\ opret'.path = NoPath
             /\ NothingLeft
          \/ /\ opret'.result = "CANCELLED"
             /\ opret'.report = "Failed to load saved image"
             /\ opret'.path \in DOMAIN files'
             /\ images' = images
             /\ objects' = objects
          \/ /\ \/ opret'.result = "RuntimeError"
                \/ /\ opret'.result = "CANCELLED"
                   /\ opret'.report = "Failed to create object."
             /\ opret'.path \in DOMAIN files'
             /\ images' = Append(images, opret'.path)]_vars

C8_Witness ==
    /\ runs = 1
    /\ opret.result = "CANCELLED"
    /\ opret.report = "Failed to load saved image"
    /\ opret.path \in DOMAIN files
    /\ images = <<>>
    /\ objects = <<>>

\* C9: every successful save writes to a path no earlier save used, and
\* leaves every earlier file's content unchanged
C9_NeverOverwritten ==
    [][(Ran /\ opret'.path # NoPath) =>
          /\ opret'.path \notin DOMAIN files
          /\ Unchanged(files)]_vars

Count(calls, fn) == Cardinality({i \in DOMAIN calls : calls[i].fn = fn})

Succeeded(calls, fn) == \E i \in DOMAIN calls : calls[i].fn = fn /\ calls[i].ok

Index(calls, fn) == CHOOSE i \in DOMAIN calls : calls[i].fn = fn

\* C10: in every clipboard read, CloseClipboard is called exactly once if
\* OpenClipboard succeeded and never otherwise, GlobalUnlock exactly once if
\* GlobalLock succeeded and never otherwise, the unlock comes before the
\* close, and the read ends with no clipboard open and no handle locked
C10_ClipboardPairing ==
    LET c == cbret.calls IN
    /\ Count(c, "OpenClipboard") <= 1
    /\ Count(c, "GlobalLock") <= 1
    /\ Count(c, "CloseClipboard") = IF Succeeded(c, "OpenClipboard") THEN 1 ELSE 0
    /\ Count(c, "GlobalUnlock") = IF Succeeded(c, "GlobalLock") THEN 1 ELSE 0
    /\ Succeeded(c, "OpenClipboard") =>
          /\ Index(c, "OpenClipboard") < Index(c, "CloseClipboard")
          /\ Index(c, "CloseClipboard") = Len(c)
    /\ Succeeded(c, "GlobalLock") =>
          /\ Index(c, "GlobalLock") < Index(c, "GlobalUnlock")
          /\ Index(c, "GlobalUnlock") < Index(c, "CloseClipboard")
    /\ cbOpen = 0
    /\ hLocked = 0

C10_Witness ==
    /\ runs > 0
    /\ cbret.exc = "OSError"
    /\ Succeeded(cbret.calls, "GlobalLock")
    /\ Count(cbret.calls, "GlobalUnlock") = 1
    /\ Count(cbret.calls, "CloseClipboard") = 1

====
